---- MODULE Spec2Model ----
(***************************************************************************)
(* State-machine model of coupon_gen.py: the deterministic identity        *)
(* generator (ConcurrentGenerator), the worker threads (worker_loop) and   *)
(* the coordinator (generate_coupons_concurrent), with the seed, index and *)
(* used-emails files they share.                                           *)
(*                                                                         *)
(* Strings are sequences of one-character strings, so that formatting      *)
(* (f"{index:06d}", str) and parsing (int, split, startswith) are          *)
(* computed, not assumed.  A `with lock:` block is two steps: taking the   *)
(* lock, then the block's body together with the release.                  *)
(***************************************************************************)
EXTENDS Integers, Sequences, FiniteSets, TLC

\* ------------------------------------------------------------------ bounds
NumWorkers == 2
MaxAttempts == 2
MaxCount == 2
MaxRuns == 2
MaxFaults == 1

\* ------------------------------------------------------- program constants
PadWidth == 6
ShortLen == 8
SeedHexLen == 16

Workers == 1..NumWorkers
Coord == 0
Free == -1

\* The codes the remote endpoint may hand out.
Codes == {"AB-12345", "XY-99999"}
NoCode == "None"

\* ----------------------------------------------------------------- strings
Min(a, b) == IF a < b THEN a ELSE b
Max(a, b) == IF a > b THEN a ELSE b

DigitChars == <<"0", "1", "2", "3", "4", "5", "6", "7", "8", "9">>

IsDigit(c) == \E d \in 1..10 : DigitChars[d] = c

DigitVal(c) == (CHOOSE d \in 1..10 : DigitChars[d] = c) - 1

\* str(n) for n >= 0: the decimal digits, most significant first.
RECURSIVE Str(_)
Str(n) ==
    IF n < 10 THEN <<DigitChars[n + 1]>>
    ELSE Append(Str(n \div 10), DigitChars[(n % 10) + 1])

\* f"{n:06d}": str(n) left-padded with zeros to at least PadWidth characters.
RECURSIVE ZeroPadTo(_, _)
ZeroPadTo(s, w) == IF Len(s) >= w THEN s ELSE ZeroPadTo(<<"0">> \o s, w)

Format06d(n) == ZeroPadTo(Str(n), PadWidth)

RECURSIVE DigitsValue(_)
DigitsValue(s) ==
    IF s = <<>> THEN 0
    ELSE 10 * DigitsValue(SubSeq(s, 1, Len(s) - 1)) + DigitVal(s[Len(s)])

AllDigits(s) == s # <<>> /\ \A i \in 1..Len(s) : IsDigit(s[i])

\* int(s): an optional minus sign and at least one digit; anything else raises.
ParseInt(s) ==
    IF AllDigits(s) THEN [ok |-> TRUE, val |-> DigitsValue(s)]
    ELSE IF s # <<>> /\ s[1] = "-" /\ AllDigits(Tail(s))
         THEN [ok |-> TRUE, val |-> 0 - DigitsValue(Tail(s))]
         ELSE [ok |-> FALSE, val |-> 0]

Prefix(s, n) == SubSeq(s, 1, Min(n, Len(s)))

StartsWith(s, p) == Len(s) >= Len(p) /\ SubSeq(s, 1, Len(p)) = p

\* line.split("@", 1)[0]: the text before the first "@", all of it if none.
RECURSIVE BeforeAt(_)
BeforeAt(s) ==
    IF s = <<>> \/ s[1] = "@" THEN <<>> ELSE <<s[1]>> \o BeforeAt(Tail(s))

\* ------------------------------------------------------------------- seeds
HexSeed(c) == [i \in 1..SeedHexLen |-> c]

\* The values generate_new_seed_hex may return.
Seeds == {HexSeed("b")}

NoSeed == <<>>
Domain == <<"d">>
FallbackEmail == <<"u", "@", "d">>

\* ------------------------------------------------------------------- files
AbsentFile == [exists |-> FALSE, text |-> <<>>]
TextFile(t) == [exists |-> TRUE, text |-> t]
AbsentLog == [exists |-> FALSE, lines |-> <<>>]

read_seed(f) == IF f.exists THEN f.text ELSE NoSeed

read_index(f) ==
    IF f.exists
    THEN IF ParseInt(f.text).ok THEN Max(0, ParseInt(f.text).val) ELSE 0
    ELSE 0

write_index(v) == TextFile(Str(v))

append_used_emailMut(f, email) == [exists |-> TRUE, lines |-> <<email>> \o f.lines]

append_used_email(f, email) == [exists |-> TRUE, lines |-> Append(f.lines, email)]

make_deterministic_email_from_seed(seed, index) ==
    Prefix(seed, ShortLen) \o <<"-">> \o Format06d(index) \o <<"@">> \o Domain

\* The suffix values of the lines of the used file that belong to seed_short.
SuffixOf(line, seed_short) ==
    LET local == BeforeAt(line)
        pre == seed_short \o <<"-">>
    IN  IF StartsWith(local, pre)
        THEN ParseInt(SubSeq(local, Len(pre) + 1, Len(local)))
        ELSE [ok |-> FALSE, val |-> 0]

find_last_index_for_seed_in_usedMut(f, seed_short) == Len(f.lines)

find_last_index_for_seed_in_used(f, seed_short) ==
    IF ~f.exists THEN 0
    ELSE LET vals == {SuffixOf(f.lines[i], seed_short).val :
                        i \in {j \in 1..Len(f.lines) :
                                 /\ f.lines[j] # <<>>
                                 /\ SuffixOf(f.lines[j], seed_short).ok}}
             max_idx == IF vals = {} THEN -1
                        ELSE CHOOSE v \in vals : \A u \in vals : u <= v
         IN  IF max_idx >= 0 THEN max_idx + 1 ELSE 0

\* ------------------------------------------------------------------- state
VARIABLES
    args,            \* the arguments of generate_coupons_concurrent
    seed_file,       \* --seed-file
    index_file,      \* --index-file (the checkpoint)
    used_file,       \* --used-file (the audit log)
    seeds_history,   \* SEEDS_HISTORY_FILE, its seeds in order
    seed_hex,        \* the coordinator's seed_hex, NoSeed while unset
    idx,             \* the coordinator's idx
    gen_index,       \* gen.index
    gen_lock,        \* the holder of gen.lock, Free if none
    shared_state,    \* results, seen_codes, collected, attempts, done
    state_lock,      \* the holder of shared_state["lock"], Free if none
    pc,              \* each worker's position in worker_loop
    cur_idx,         \* each worker's cur_idx inside next_email_and_advance
    cur_email,       \* each worker's cur_email
    code,            \* each worker's extracted code
    cpc,             \* the coordinator's position
    results_rows,    \* the coordinator's results_rows
    interrupted_at,  \* collected when KeyboardInterrupt was raised, -1 if it was not
    issued,          \* the indices next_email_and_advance returned in this run
    emails,          \* the emails next_email_and_advance returned in this run
    run,             \* the number of the current run
    prev_max,        \* the largest index earlier runs issued under seed_file's seed
    faults_left,     \* how many more file writes the disk will fail
    extractor,       \* a call of _extract_from_webhook_response: input and result
    argv             \* the command line main parsed, once main is followed

vars ==
    <<args, seed_file, index_file, used_file, seeds_history, seed_hex, idx,
      gen_index, gen_lock, shared_state, state_lock, pc, cur_idx, cur_email,
      code, cpc, results_rows, interrupted_at, issued, emails, run, prev_max,
      faults_left, extractor, argv>>

files == <<seed_file, index_file, used_file, seeds_history>>
generator == <<gen_index, gen_lock>>
locals == <<cur_idx, cur_email, code>>
coordinator == <<cpc, results_rows, interrupted_at, seed_hex, idx>>
history == <<issued, emails, run, prev_max, faults_left>>

\* The arguments a run may be started with.
ArgSets ==
    [count : 0..MaxCount,
     max_attempts : 1..MaxAttempts,
     no_email : BOOLEAN,
     retry_with_email : BOOLEAN,
     reuse_seed : BOOLEAN]

\* What earlier use may have left on disk: nothing, or the files of a run that
\* issued indices 0 and 1 under seed aaaa...
Disks ==
    {[seed |-> AbsentFile, index |-> AbsentFile, used |-> AbsentLog,
      seeds |-> <<>>, prev_max |-> -1],
     [seed |-> TextFile(HexSeed("a")), index |-> TextFile(Str(2)),
      used |-> [exists |-> TRUE,
                lines |-> <<make_deterministic_email_from_seed(HexSeed("a"), 0),
                            make_deterministic_email_from_seed(HexSeed("a"), 1)>>],
      seeds |-> <<HexSeed("a")>>, prev_max |-> 1]}

NewSharedState ==
    [results |-> <<>>, seen_codes |-> {}, collected |-> 0, attempts |-> 0,
     done |-> FALSE]

\* The in-memory state at the start of generate_coupons_concurrent.
StartOfRun ==
    /\ seed_hex = NoSeed
    /\ idx = 0
    /\ gen_index = 0
    /\ gen_lock = Free
    /\ shared_state = NewSharedState
    /\ state_lock = Free
    /\ pc = [w \in Workers |-> "unstarted"]
    /\ cur_idx = [w \in Workers |-> 0]
    /\ cur_email = [w \in Workers |-> <<>>]
    /\ code = [w \in Workers |-> NoCode]
    /\ cpc = "seed"
    /\ results_rows = <<>>
    /\ interrupted_at = -1
    /\ issued = <<>>
    /\ emails = <<>>

\* No call of _extract_from_webhook_response is being followed.
NoExtraction == [pc |-> "idle"]

\* main is not followed: generate_coupons_concurrent starts with its arguments.
NoCommandLine == [real |-> TRUE]

\* The start of a first run, given how many file writes the disk will fail.
InitWith(budget) ==
    /\ argv = NoCommandLine
    /\ extractor = NoExtraction
    /\ args \in ArgSets
    /\ \E d \in Disks :
        /\ seed_file = d.seed
        /\ index_file = d.index
        /\ used_file = d.used
        /\ seeds_history = d.seeds
        /\ prev_max = d.prev_max
    /\ run = 1
    /\ faults_left = budget
    /\ StartOfRun

\* A disk whose writes all succeed.
Init == InitWith(0)

\* A disk that fails up to MaxFaults writes of the index or used file.
InitFaults == InitWith(MaxFaults)

\* ------------------------------------------------------- identity generator
\* What a write of the index file that raises leaves behind: the old contents,
\* or a file truncated by open(..., "w").
FailedIndexWrites == {index_file, TextFile(<<>>)}

AdvanceIndexSkip(i) == i + 2

AdvanceIndexMut(i) == i

AdvanceIndex(i) == i + 1

\* next_email_and_advance: take gen.lock, read the index, derive the email,
\* increment the index.
GenEnter(w) ==
    /\ pc[w] = "email"
    /\ args.no_email
    /\ gen_lock = Free
    /\ gen_lock' = w
    /\ cur_idx' = [cur_idx EXCEPT ![w] = gen_index]
    /\ cur_email' = [cur_email EXCEPT ![w] =
                        make_deterministic_email_from_seed(seed_hex, gen_index)]
    /\ gen_index' = AdvanceIndex(gen_index)
    /\ pc' = [pc EXCEPT ![w] = "gen_write"]
    /\ UNCHANGED <<argv, extractor, args, files, shared_state, state_lock, code, coordinator, history>>

\* next_email_and_advance: write_index, its exception swallowed.
GenWriteIndex(w) ==
    /\ pc[w] = "gen_write"
    /\ \/ /\ index_file' = write_index(gen_index)
          /\ UNCHANGED faults_left
       \/ /\ faults_left > 0
          /\ index_file' \in FailedIndexWrites
          /\ faults_left' = faults_left - 1
    /\ pc' = [pc EXCEPT ![w] = "gen_append"]
    /\ UNCHANGED <<argv, extractor, args, seed_file, used_file, seeds_history, generator,
                   shared_state, state_lock, locals, coordinator, issued,
                   emails, run, prev_max>>

\* next_email_and_advance: append_used_email, its exception swallowed; then
\* the lock is released and the email returned.
GenAppendUsed(w) ==
    /\ pc[w] = "gen_append"
    /\ \/ /\ used_file' = append_used_email(used_file, cur_email[w])
          /\ UNCHANGED faults_left
       \/ /\ faults_left > 0
          /\ UNCHANGED used_file
          /\ faults_left' = faults_left - 1
    /\ gen_lock' = Free
    /\ issued' = Append(issued, cur_idx[w])
    /\ emails' = Append(emails, cur_email[w])
    /\ pc' = [pc EXCEPT ![w] = "request"]
    /\ UNCHANGED <<argv, extractor, args, seed_file, index_file, seeds_history, gen_index,
                   shared_state, state_lock, locals, coordinator, run, prev_max>>

\* ------------------------------------------------------------------ worker
StopRequestedMut == FALSE

StopRequested == shared_state.done

BudgetSpentMut == shared_state.attempts > args.max_attempts

BudgetSpent == shared_state.attempts >= args.max_attempts

TargetReached == shared_state.collected >= args.count

DeniedMut == shared_state

\* shared_state after a reservation is denied for target or budget.
Denied == [shared_state EXCEPT !.done = TRUE]

\* The worker's locals once an iteration is over.
Forget(f, w, v) == [f EXCEPT ![w] = v]

\* worker_loop: `with shared_state["lock"]:` at the top of the loop.
ReserveLock(w) ==
    /\ pc[w] = "reserve"
    /\ state_lock = Free
    /\ state_lock' = w
    /\ pc' = [pc EXCEPT ![w] = "reserving"]
    /\ UNCHANGED <<argv, extractor, args, files, generator, shared_state, locals, coordinator, history>>

\* The reservation block with the grant not counted.
ReserveAttemptUncounted(w) ==
    /\ pc[w] = "reserving"
    /\ state_lock' = Free
    /\ \/ /\ StopRequested
          /\ pc' = [pc EXCEPT ![w] = "stopped"]
          /\ UNCHANGED shared_state
       \/ /\ ~StopRequested
          /\ TargetReached \/ BudgetSpent
          /\ shared_state' = Denied
          /\ pc' = [pc EXCEPT ![w] = "stopped"]
       \/ /\ ~StopRequested
          /\ ~TargetReached
          /\ ~BudgetSpent
          /\ UNCHANGED shared_state
          /\ pc' = [pc EXCEPT ![w] = "email"]
    /\ UNCHANGED <<argv, extractor, args, files, generator, locals, coordinator,
                   history>>

\* The reservation block with the call of next_email_and_advance inside it.
ReserveAttemptNested(w) ==
    /\ pc[w] = "reserving"
    /\ \/ /\ StopRequested
          /\ pc' = [pc EXCEPT ![w] = "stopped"]
          /\ state_lock' = Free
          /\ UNCHANGED shared_state
       \/ /\ ~StopRequested
          /\ TargetReached \/ BudgetSpent
          /\ shared_state' = Denied
          /\ state_lock' = Free
          /\ pc' = [pc EXCEPT ![w] = "stopped"]
       \/ /\ ~StopRequested
          /\ ~TargetReached
          /\ ~BudgetSpent
          /\ shared_state' = [shared_state EXCEPT !.attempts = @ + 1]
          /\ state_lock' = w
          /\ pc' = [pc EXCEPT ![w] = "email"]
    /\ UNCHANGED <<argv, extractor, args, files, generator, locals, coordinator,
                   history>>

\* worker_loop: the reservation block; the lock is released on leaving it.
ReserveAttempt(w) ==
    /\ pc[w] = "reserving"
    /\ state_lock' = Free
    /\ \/ /\ StopRequested
          /\ pc' = [pc EXCEPT ![w] = "stopped"]
          /\ UNCHANGED shared_state
       \/ /\ ~StopRequested
          /\ TargetReached
          /\ shared_state' = Denied
          /\ pc' = [pc EXCEPT ![w] = "stopped"]
       \/ /\ ~StopRequested
          /\ ~TargetReached
          /\ BudgetSpent
          /\ shared_state' = Denied
          /\ pc' = [pc EXCEPT ![w] = "stopped"]
       \/ /\ ~StopRequested
          /\ ~TargetReached
          /\ ~BudgetSpent
          /\ shared_state' = [shared_state EXCEPT !.attempts = @ + 1]
          /\ pc' = [pc EXCEPT ![w] = "email"]
    /\ UNCHANGED <<argv, extractor, args, files, generator, locals, coordinator, history>>

\* worker_loop without --no-email: the configured email is used.
UseFallbackEmail(w) ==
    /\ pc[w] = "email"
    /\ ~args.no_email
    /\ cur_email' = [cur_email EXCEPT ![w] = FallbackEmail]
    /\ pc' = [pc EXCEPT ![w] = "request"]
    /\ UNCHANGED <<argv, extractor, args, files, generator, shared_state, state_lock, cur_idx,
                   code, coordinator, history>>

\* session.post and the extraction with a failed request given back to the
\* budget.
PostAndExtractRefund(w) ==
    /\ pc[w] = "request"
    /\ \/ /\ pc' = [pc EXCEPT ![w] = "reserve"]
          /\ cur_email' = Forget(cur_email, w, <<>>)
          /\ cur_idx' = Forget(cur_idx, w, 0)
          /\ code' = Forget(code, w, NoCode)
          /\ shared_state' = [shared_state EXCEPT !.attempts = @ - 1]
       \/ \E c \in Codes :
            /\ pc' = [pc EXCEPT ![w] = "record"]
            /\ code' = [code EXCEPT ![w] = c]
            /\ UNCHANGED <<cur_email, cur_idx, shared_state>>
    /\ UNCHANGED <<argv, extractor, args, files, generator, state_lock, coordinator,
                   history>>

\* worker_loop: session.post and _extract_from_webhook_response.  The request
\* raises, or the response holds no code, or it holds one of Codes.
PostAndExtract(w) ==
    /\ pc[w] = "request"
    /\ \/ /\ pc' = [pc EXCEPT ![w] = "reserve"]
          /\ cur_email' = Forget(cur_email, w, <<>>)
          /\ cur_idx' = Forget(cur_idx, w, 0)
          /\ code' = code
       \/ /\ pc' = [pc EXCEPT ![w] = "reserve"]
          /\ cur_email' = Forget(cur_email, w, <<>>)
          /\ cur_idx' = Forget(cur_idx, w, 0)
          /\ code' = Forget(code, w, NoCode)
       \/ \E c \in Codes :
            /\ pc' = [pc EXCEPT ![w] = "record"]
            /\ code' = [code EXCEPT ![w] = c]
            /\ UNCHANGED <<cur_email, cur_idx>>
    /\ UNCHANGED <<argv, extractor, args, files, generator, shared_state, state_lock, coordinator, history>>

\* worker_loop: `with shared_state["lock"]:` after a code was extracted.
RecordLock(w) ==
    /\ pc[w] = "record"
    /\ state_lock = Free
    /\ state_lock' = w
    /\ pc' = [pc EXCEPT ![w] = "recording"]
    /\ UNCHANGED <<argv, extractor, args, files, generator, shared_state, locals, coordinator, history>>

IsDuplicateMut(c) == FALSE

IsDuplicate(c) == c \in shared_state.seen_codes

EmailOrEmpty(e) == IF e # <<>> THEN e ELSE <<"<", "e", "m", "p", "t", "y", ">">>

\* shared_state after a record that does not look at the target.
RecordedNoDone(e, c) ==
    [shared_state EXCEPT
        !.seen_codes = @ \cup {c},
        !.results = Append(@, <<EmailOrEmpty(e), c>>),
        !.collected = @ + 1]

RecordedMut(e, c) ==
    [shared_state EXCEPT
        !.seen_codes = @ \cup {c},
        !.results = Append(@, <<EmailOrEmpty(e), c>>),
        !.collected = @ + 1,
        !.done = (shared_state.collected + 1 >= args.count)]

\* shared_state after a new code is recorded.
Recorded(e, c) ==
    [shared_state EXCEPT
        !.seen_codes = @ \cup {c},
        !.results = Append(@, <<EmailOrEmpty(e), c>>),
        !.collected = @ + 1,
        !.done = @ \/ (shared_state.collected + 1 >= args.count)]

\* worker_loop: the record block; the lock is released on leaving it.
RecordCode(w) ==
    /\ pc[w] = "recording"
    /\ state_lock' = Free
    /\ \/ /\ IsDuplicate(code[w])
          /\ UNCHANGED shared_state
          /\ pc' = [pc EXCEPT ![w] = "reserve"]
       \/ /\ ~IsDuplicate(code[w])
          /\ shared_state' = Recorded(cur_email[w], code[w])
          /\ pc' = [pc EXCEPT ![w] =
                      IF shared_state.collected + 1 >= args.count
                      THEN "stopped" ELSE "reserve"]
    /\ cur_email' = Forget(cur_email, w, <<>>)
    /\ cur_idx' = Forget(cur_idx, w, 0)
    /\ code' = Forget(code, w, NoCode)
    /\ UNCHANGED <<argv, extractor, args, files, generator, coordinator, history>>

WorkerStep(w) ==
    \/ ReserveLock(w)
    \/ ReserveAttempt(w)
    \/ GenEnter(w)
    \/ GenWriteIndex(w)
    \/ GenAppendUsed(w)
    \/ UseFallbackEmail(w)
    \/ PostAndExtract(w)
    \/ RecordLock(w)
    \/ RecordCode(w)

\* ------------------------------------------------------------- coordinator
SeedMissingMut(seed) == FALSE

\* `if not seed_hex`
SeedMissing(seed) == seed = NoSeed

\* generate_coupons_concurrent, seed handling: with --reuse-seed the seed file
\* must hold a seed, or [] is returned; otherwise a new seed is persisted.
SeedHandling ==
    /\ cpc = "seed"
    /\ \/ /\ args.reuse_seed
          /\ SeedMissing(read_seed(seed_file))
          /\ cpc' = "returned"
          /\ results_rows' = <<>>
          /\ UNCHANGED <<seed_hex, files, prev_max>>
       \/ /\ args.reuse_seed
          /\ ~SeedMissing(read_seed(seed_file))
          /\ seed_hex' = read_seed(seed_file)
          /\ cpc' = "index"
          /\ UNCHANGED <<results_rows, files, prev_max>>
       \/ /\ ~args.reuse_seed
          /\ \E s \in Seeds :
                /\ seed_hex' = s
                /\ seed_file' = TextFile(s)
                /\ seeds_history' = Append(seeds_history, s)
                /\ prev_max' = IF read_seed(seed_file) = s THEN prev_max ELSE -1
          /\ cpc' = "index"
          /\ UNCHANGED <<results_rows, index_file, used_file>>
    /\ UNCHANGED <<argv, extractor, args, generator, shared_state, state_lock, pc, locals,
                   interrupted_at, idx, issued, emails, run, faults_left>>

\* generate_coupons_concurrent, starting index: the index file if it exists,
\* else the used file's last index for the seed, written to the index file.
StartingIndex ==
    /\ cpc = "index"
    /\ \/ /\ index_file.exists
          /\ idx' = read_index(index_file)
          /\ UNCHANGED index_file
       \/ /\ ~index_file.exists
          /\ idx' = find_last_index_for_seed_in_used(used_file, Prefix(seed_hex, ShortLen))
          /\ index_file' = write_index(idx')
    /\ cpc' = "gen"
    /\ UNCHANGED <<argv, extractor, args, seed_file, used_file, seeds_history, generator,
                   shared_state, state_lock, pc, locals, results_rows,
                   interrupted_at, seed_hex, history>>

\* ConcurrentGenerator(...) loads the index file; the coordinator then sets
\* gen.index = idx under gen.lock and creates shared_state.
CreateGenerator ==
    /\ cpc = "gen"
    /\ gen_lock = Free
    /\ gen_index' = idx
    /\ shared_state' = NewSharedState
    /\ cpc' = "spawn"
    /\ UNCHANGED <<argv, extractor, args, files, gen_lock, state_lock, pc, locals, results_rows,
                   interrupted_at, seed_hex, idx, history>>

\* The worker th.start() starts next.
NextToStart == CHOOSE w \in Workers : pc[w] = "unstarted" /\ \A v \in 1..(w - 1) : pc[v] # "unstarted"

\* generate_coupons_concurrent: one th.start() of the loop over range(concurrency).
StartWorker ==
    /\ cpc = "spawn"
    /\ \E w \in Workers : pc[w] = "unstarted"
    /\ pc' = [pc EXCEPT ![NextToStart] = "reserve"]
    /\ cpc' = IF \A w \in Workers \ {NextToStart} : pc[w] # "unstarted"
              THEN "monitor" ELSE "spawn"
    /\ UNCHANGED <<argv, extractor, args, files, generator, shared_state, state_lock, locals,
                   results_rows, interrupted_at, seed_hex, idx, history>>

\* The monitor loop: time.sleep(0.5), then `with shared_state["lock"]:`.
MonitorLock ==
    /\ cpc = "monitor"
    /\ state_lock = Free
    /\ state_lock' = Coord
    /\ cpc' = "monitoring"
    /\ UNCHANGED <<argv, extractor, args, files, generator, shared_state, pc, locals, results_rows,
                   interrupted_at, seed_hex, idx, history>>

\* The monitor loop: break if done, else sleep again.
MonitorCheck ==
    /\ cpc = "monitoring"
    /\ state_lock' = Free
    /\ cpc' = IF shared_state.done THEN "join" ELSE "monitor"
    /\ UNCHANGED <<argv, extractor, args, files, generator, shared_state, pc, locals, results_rows,
                   interrupted_at, seed_hex, idx, history>>

\* KeyboardInterrupt raised inside the try block: a lock held by the `with`
\* is released and control passes to the except clause.
KeyboardInterrupt ==
    /\ cpc \in {"monitor", "monitoring"}
    /\ interrupted_at' = shared_state.collected
    /\ state_lock' = IF state_lock = Coord THEN Free ELSE state_lock
    /\ cpc' = "except"
    /\ UNCHANGED <<argv, extractor, args, files, generator, shared_state, pc, locals, results_rows,
                   seed_hex, idx, history>>

\* except KeyboardInterrupt: `with shared_state["lock"]:`.
ExceptLock ==
    /\ cpc = "except"
    /\ state_lock = Free
    /\ state_lock' = Coord
    /\ cpc' = "stopping"
    /\ UNCHANGED <<argv, extractor, args, files, generator, shared_state, pc, locals, results_rows,
                   interrupted_at, seed_hex, idx, history>>

ForcedStopMut == shared_state

\* shared_state after the except clause's shared_state["done"] = True.
ForcedStop == [shared_state EXCEPT !.done = TRUE]

\* except KeyboardInterrupt: shared_state["done"] = True.
ForceStop ==
    /\ cpc = "stopping"
    /\ shared_state' = ForcedStop
    /\ state_lock' = Free
    /\ cpc' = "join"
    /\ UNCHANGED <<argv, extractor, args, files, generator, pc, locals, results_rows, interrupted_at,
                   seed_hex, idx, history>>

TruncateTail(results, count) ==
    SubSeq(results, Max(1, Len(results) - count + 1), Len(results))

TruncateMut(results, count) == results

\* results[:count]
Truncate(results, count) == SubSeq(results, 1, Min(count, Len(results)))

\* th.join(timeout=1.0) for every thread, each ending when its thread has
\* returned or the timeout has passed; then results_rows =
\* shared_state["results"][:count]; the fallback loop is entered if fewer than
\* count were collected and --retry-with-email was given.
CollectResults ==
    /\ cpc = "join"
    /\ results_rows' = Truncate(shared_state.results, args.count)
    /\ cpc' = IF Len(results_rows') < args.count /\ args.retry_with_email
              THEN "fallback" ELSE "returned"
    /\ UNCHANGED <<argv, extractor, args, files, generator, shared_state, state_lock, pc, locals,
                   interrupted_at, seed_hex, idx, history>>

RowCodesMut(rows) == {}

RowCodes(rows) == {rows[i][2] : i \in 1..Len(rows)}

\* One iteration of the single-threaded fallback loop: the request raises, or
\* yields no new code (both break), or yields a new code, which is appended.
FallbackRetry ==
    /\ cpc = "fallback"
    /\ \/ /\ cpc' = "returned"
          /\ UNCHANGED results_rows
       \/ \E c \in (Codes \cup {NoCode}) :
            /\ c = NoCode \/ c \in RowCodes(results_rows)
            /\ cpc' = "returned"
            /\ UNCHANGED results_rows
       \/ \E c \in Codes :
            /\ c \notin RowCodes(results_rows)
            /\ results_rows' = Append(results_rows, <<FallbackEmail, c>>)
            /\ cpc' = IF Len(results_rows') < args.count THEN "fallback" ELSE "returned"
    /\ UNCHANGED <<argv, extractor, args, files, generator, shared_state, state_lock, pc, locals,
                   interrupted_at, seed_hex, idx, history>>

CoordinatorStep ==
    \/ SeedHandling
    \/ StartingIndex
    \/ CreateGenerator
    \/ StartWorker
    \/ MonitorLock
    \/ MonitorCheck
    \/ KeyboardInterrupt
    \/ ExceptLock
    \/ ForceStop
    \/ CollectResults
    \/ FallbackRetry

\* ------------------------------------------------------------ specification
Next == CoordinatorStep \/ \E w \in Workers : WorkerStep(w)

Spec == Init /\ [][Next]_vars

SpecFaults == InitFaults /\ [][Next]_vars

\* The scheduler runs every thread that can take a step; a thread waiting for
\* a lock gets it once it is released often enough (the monitor sleeps 0.5 s
\* between its acquisitions).  KeyboardInterrupt is left to the user.
ProgramStep ==
    \/ SeedHandling
    \/ StartingIndex
    \/ CreateGenerator
    \/ StartWorker
    \/ MonitorLock
    \/ MonitorCheck
    \/ ExceptLock
    \/ ForceStop
    \/ CollectResults
    \/ FallbackRetry

Fairness == WF_vars(ProgramStep) /\ \A w \in Workers : SF_vars(WorkerStep(w))

SpecFair == Init /\ [][Next]_vars /\ Fairness

\* ------------------------------------------------------------ several runs
LargestIssued == IF issued = <<>> THEN -1
                 ELSE CHOOSE m \in {issued[i] : i \in 1..Len(issued)} :
                        \A i \in 1..Len(issued) : issued[i] <= m

\* The index file after the process has ended: as it is, or, if a thread was
\* killed inside write_index, possibly truncated by its open(..., "w") with
\* the new value not yet written.
IndexFileAfterExit ==
    {index_file} \cup
        (IF \E w \in Workers : pc[w] = "gen_write" THEN {TextFile(<<>>)} ELSE {})

\* The process ends, normally or killed at any point, and the program is run
\* again with --reuse-seed on the same files.
NewRun ==
    /\ run < MaxRuns
    /\ index_file' \in IndexFileAfterExit
    /\ run' = run + 1
    /\ prev_max' = Max(prev_max, LargestIssued)
    /\ args' = [args EXCEPT !.reuse_seed = TRUE]
    /\ seed_hex' = NoSeed
    /\ idx' = 0
    /\ gen_index' = 0
    /\ gen_lock' = Free
    /\ shared_state' = NewSharedState
    /\ state_lock' = Free
    /\ pc' = [w \in Workers |-> "unstarted"]
    /\ cur_idx' = [w \in Workers |-> 0]
    /\ cur_email' = [w \in Workers |-> <<>>]
    /\ code' = [w \in Workers |-> NoCode]
    /\ cpc' = "seed"
    /\ results_rows' = <<>>
    /\ interrupted_at' = -1
    /\ issued' = <<>>
    /\ emails' = <<>>
    /\ UNCHANGED <<seed_file, used_file, seeds_history, faults_left, extractor, argv>>

NextRuns == Next \/ NewRun

SpecRuns == InitFaults /\ [][NextRuns]_vars

\* ------------------------------------------------------------------ claims
InFlight == {w \in Workers : pc[w] \in {"email", "gen_write", "gen_append",
                                        "request", "record", "recording"}}

Granted(w) == pc[w] = "reserving" /\ pc'[w] = "email"

Refused(w) == pc[w] = "reserving" /\ pc'[w] = "stopped"

DistinctCodes(rows) ==
    \A i, j \in 1..Len(rows) : i # j => rows[i][2] # rows[j][2]

\* C1: attempts never exceeds max_attempts; a reservation tried when attempts
\* has reached max_attempts is refused and leaves attempts as it is; every
\* granted reservation adds exactly 1 to attempts, and nothing else changes
\* attempts, so attempts counts the grants.
C1_AttemptsWithinBudget ==
    /\ [](shared_state.attempts <= args.max_attempts)
    /\ [][/\ \A w \in Workers :
                /\ (pc[w] = "reserving" /\ pc'[w] # "reserving"
                    /\ shared_state.attempts >= args.max_attempts)
                   => Refused(w) /\ shared_state'.attempts = shared_state.attempts
                /\ Granted(w) => shared_state'.attempts = shared_state.attempts + 1
          /\ shared_state'.attempts # shared_state.attempts
                => \E w \in Workers : Granted(w)]_vars

\* C1 witness: the budget is used up and a worker was refused for that reason
\* (no interruption, target not reached).
C1_Witness ==
    /\ shared_state.attempts = args.max_attempts
    /\ shared_state.done
    /\ interrupted_at = -1
    /\ shared_state.collected < args.count
    /\ \E w \in Workers : pc[w] = "stopped"

\* C2: results holds no code twice, collected is the length of results, and
\* the codes of results are exactly seen_codes.
C2_UniqueResults ==
    /\ DistinctCodes(shared_state.results)
    /\ shared_state.collected = Len(shared_state.results)
    /\ RowCodes(shared_state.results) = shared_state.seen_codes

\* C2 witness: a code is recorded and another worker holds a response with
\* the same code.
C2_Witness ==
    /\ Len(shared_state.results) = 1
    /\ \E w \in Workers :
        /\ pc[w] \in {"record", "recording"}
        /\ code[w] = shared_state.results[1][2]

\* C3: no step sets done back to false.
C3_DoneIsMonotonic == [][shared_state.done => shared_state'.done]_vars

\* C3 witness: done was set by the interruption while fewer than count codes
\* are collected, and a worker records a new code after that.
C3_Witness ==
    /\ interrupted_at >= 0
    /\ shared_state.done
    /\ shared_state.collected > interrupted_at
    /\ shared_state.collected < args.count

\* C4: under fair scheduling the harvest terminates: the coordinator leaves
\* the monitor loop and returns, and, once workers were started, done becomes
\* true and every worker stops.
C4_HarvestTerminates ==
    <>[](/\ cpc = "returned"
         /\ seed_hex # NoSeed =>
                /\ shared_state.done
                /\ \A w \in Workers : pc[w] = "stopped")

\* C4 witness: the budget ran out before the target was reached, every worker
\* has stopped and the coordinator has returned without being interrupted.
C4_Witness ==
    /\ cpc = "returned"
    /\ interrupted_at = -1
    /\ shared_state.done
    /\ shared_state.collected < args.count
    /\ shared_state.attempts = args.max_attempts
    /\ \A w \in Workers : pc[w] = "stopped"

\* Every attempt that has ended recorded a new code: no request raised, no
\* response lacked a code, no code came twice.
NoAttemptWasted ==
    shared_state.attempts = shared_state.collected + Cardinality(InFlight)

\* min(M, T) for the M codes of the transport and the requested count T.
MinMT == Min(Cardinality(Codes), args.count)

\* C5 as stated: the coordinator returns exactly min(M, T) results with
\* pairwise distinct codes and attempts <= max_attempts.  It is stated here for
\* the runs most favourable to it: a budget of at least the target, no
\* interruption, and every ended attempt having recorded a new code.
C5_ReturnsExactlyTarget ==
    (/\ cpc = "returned"
     /\ seed_hex # NoSeed
     /\ interrupted_at = -1
     /\ args.max_attempts >= args.count
     /\ NoAttemptWasted)
    => /\ Len(results_rows) = MinMT
       /\ DistinctCodes(results_rows)
       /\ shared_state.attempts <= args.max_attempts

\* C5 amended: the coordinator returns at most min(M, T) results with
\* pairwise distinct codes and attempts <= max_attempts; it returns exactly
\* count results, without fallback requests, if collected had reached count
\* when it took the results.
C5_ReturnsAtMostTarget ==
    /\ [](cpc = "returned" /\ seed_hex # NoSeed
            => /\ Len(results_rows) <= MinMT
               /\ DistinctCodes(results_rows)
               /\ shared_state.attempts <= args.max_attempts)
    /\ [][(cpc = "join" /\ cpc' # "join" /\ shared_state.collected >= args.count)
            => cpc' = "returned" /\ Len(results_rows') = args.count]_vars

\* C5 witness: two workers each contributed one of the two requested results
\* and the coordinator returned both.
C5_Witness ==
    /\ cpc = "returned"
    /\ interrupted_at = -1
    /\ args.count = 2
    /\ Len(results_rows) = 2
    /\ results_rows[1][1] # results_rows[2][1]

\* Indices around the point where f"{index:06d}" outgrows its six digits.
ProbeIndices == {0, 1, 9, 10, 99999, 100000, 999999, 1000000, 1000001}

\* C6: the emails next_email_and_advance returned in a run are pairwise
\* distinct and their indices increase in the order of the calls; for the
\* run's seed, different indices give different emails.
C6_DistinctIdentities ==
    /\ \A i, j \in 1..Len(emails) :
          i < j => emails[i] # emails[j] /\ issued[i] < issued[j]
    /\ cpc = "gen" =>
          \A i, j \in ProbeIndices \cup {idx, idx + 1} :
              i # j => make_deterministic_email_from_seed(seed_hex, i)
                          # make_deterministic_email_from_seed(seed_hex, j)

\* C6 witness: both workers hold an email of the generator at the same time.
C6_Witness ==
    /\ Len(emails) = 2
    /\ pc[1] = "request"
    /\ pc[2] = "request"
    /\ cur_email[1] # <<>>
    /\ cur_email[2] # <<>>

\* C7: under one seed, every index a run issues is greater than every index
\* earlier runs issued, however those runs ended.
C7_NoIndexReissuedAcrossRuns ==
    \A i \in 1..Len(issued) : issued[i] > prev_max

Interrupted == interrupted_at >= 0

\* C8 as stated: interrupted while collected < count, the coordinator sets
\* done and returns fewer than count results with pairwise distinct codes.
\* It is stated here for runs without --retry-with-email, where only workers
\* add results.
C8_InterruptReturnsFewer ==
    (/\ cpc = "returned"
     /\ Interrupted
     /\ interrupted_at < args.count
     /\ ~args.retry_with_email)
    => /\ shared_state.done
       /\ Len(results_rows) < args.count
       /\ DistinctCodes(results_rows)

\* C8 amended: interrupted while collected < count, the coordinator sets done
\* and returns the results collected by the time it takes them: at most count
\* entries with pairwise distinct codes, which without --retry-with-email are
\* the first entries of results.
C8_InterruptReturnsPartial ==
    /\ (Interrupted /\ cpc \in {"join", "fallback", "returned"})
          => shared_state.done
    /\ (cpc = "returned" /\ Interrupted /\ interrupted_at < args.count)
          => /\ Len(results_rows) <= args.count
             /\ DistinctCodes(results_rows)
             /\ ~args.retry_with_email =>
                    /\ Len(results_rows) <= Len(shared_state.results)
                    /\ results_rows = SubSeq(shared_state.results, 1, Len(results_rows))

\* C8 witness: interrupted with one of two requested codes collected, the
\* coordinator has returned that one result.
C8_Witness ==
    /\ cpc = "returned"
    /\ interrupted_at = 1
    /\ args.count = 2
    /\ ~args.retry_with_email
    /\ Len(results_rows) = 1

\* C9: once done is true no reservation is granted: attempts stays as it is,
\* and a worker that leaves its reservation check stops.
C9_NoGrantAfterDone ==
    [][shared_state.done =>
          /\ shared_state'.attempts = shared_state.attempts
          /\ \A w \in Workers :
                /\ ~Granted(w)
                /\ (pc[w] = "reserving" /\ pc'[w] # "reserving") => Refused(w)]_vars

\* C9 witness: done is set while budget and target would still allow a
\* reservation; one worker is at its reservation check and has stopped there.
C9_Witness ==
    /\ shared_state.done
    /\ shared_state.attempts < args.max_attempts
    /\ shared_state.collected < args.count
    /\ \E w \in Workers : pc[w] = "stopped"
    /\ \E w \in Workers : pc[w] \in InFlight \/ pc[w] = "reserving"

MissingSeed == args.reuse_seed /\ ~seed_file.exists

\* C10: with --reuse-seed and no seed file the coordinator returns [] at
\* once: no worker is started, no email issued, no attempt reserved, and no
\* file is written.
C10_MissingSeedAborts ==
    /\ [](MissingSeed =>
            /\ cpc \in {"seed", "returned"}
            /\ \A w \in Workers : pc[w] = "unstarted"
            /\ issued = <<>>
            /\ shared_state.attempts = 0
            /\ results_rows = <<>>)
    /\ [][MissingSeed =>
            /\ cpc = "seed"
            /\ cpc' = "returned"
            /\ UNCHANGED <<files, shared_state, gen_index, pc, emails>>]_vars

\* C10 witness: the coordinator has returned for lack of a seed file.
C10_Witness == MissingSeed /\ cpc = "returned"

\* The index a line of the used file carries for the run's seed.
LoggedIndex(line) == SuffixOf(line, Prefix(seed_hex, ShortLen))

\* The lines the run has appended to the used file.
RunLines ==
    SubSeq(used_file.lines, Len(used_file.lines) - Len(issued) + 1,
           Len(used_file.lines))

\* The generator exists and no thread is inside next_email_and_advance.
NoCallInProgress ==
    /\ seed_hex # NoSeed
    /\ cpc \notin {"seed", "index", "gen"}
    /\ gen_lock = Free

\* C11: calls of next_email_and_advance do not interleave.  With file writes
\* that succeed, the used file only grows by the email of the call in progress,
\* the lines appended in the run carry the indices idx, idx + 1, ... in file
\* order, and whenever no call is in progress the index file holds gen.index,
\* which is the last appended index plus 1.
C11_NextIsAtomic ==
    /\ [](/\ Len(issued) <= Len(used_file.lines)
          /\ \A k \in 1..Len(RunLines) :
                /\ LoggedIndex(RunLines[k]).ok
                /\ LoggedIndex(RunLines[k]).val = idx + k - 1
          /\ \A v, w \in Workers :
                (v # w /\ pc[v] \in {"gen_write", "gen_append"})
                    => pc[w] \notin {"gen_write", "gen_append"})
    /\ [](NoCallInProgress =>
            /\ index_file = TextFile(Str(gen_index))
            /\ read_index(index_file) = gen_index
            /\ gen_index = idx + Len(RunLines)
            /\ RunLines # <<>> =>
                  gen_index = LoggedIndex(RunLines[Len(RunLines)]).val + 1)
    /\ [][used_file' # used_file =>
            \E w \in Workers :
                /\ pc[w] = "gen_append"
                /\ used_file'.lines = Append(used_file.lines, cur_email[w])]_vars

\* C11 witness: after an earlier run's two lines, each worker has completed
\* one call; the used file holds four lines and the index file idx + 2.
C11_Witness ==
    /\ NoCallInProgress
    /\ Len(used_file.lines) = 4
    /\ Len(RunLines) = 2
    /\ index_file = TextFile(Str(idx + 2))
    /\ pc[1] = "request"
    /\ pc[2] = "request"

\* A write of the index file or of the used file raised in this step.
WriteFailed == faults_left' < faults_left

\* C12: a write_index or append_used_email that raises does not stop the
\* call or the harvest.  The worker goes on to the next statement, gen.index
\* stays one past the call's index, the call returns the email of its index
\* and the worker proceeds to its request; done and the coordinator are left
\* alone.  The calls of a run return the emails of idx, idx + 1, ...
\* whatever the disk does.
C12_PersistenceFailureTolerated ==
    /\ [][WriteFailed =>
            \E w \in Workers :
                /\ pc[w] \in {"gen_write", "gen_append"}
                /\ pc'[w] = (IF pc[w] = "gen_write" THEN "gen_append" ELSE "request")
                /\ gen_index' = gen_index
                /\ gen_index = cur_idx[w] + 1
                /\ cur_email'[w] = cur_email[w]
                /\ cur_email[w] = make_deterministic_email_from_seed(seed_hex, cur_idx[w])
                /\ pc[w] = "gen_append" =>
                      /\ emails' = Append(emails, cur_email[w])
                      /\ gen_lock' = Free
                /\ UNCHANGED <<shared_state, cpc>>]_vars
    /\ [](\A k \in 1..Len(issued) :
            /\ issued[k] = idx + k - 1
            /\ emails[k] = make_deterministic_email_from_seed(seed_hex, issued[k]))

\* C12 witness: a write has failed, leaving the used file one line short, and
\* the harvest went on: two emails were issued and a code was recorded.
C12_Witness ==
    /\ faults_left < MaxFaults
    /\ Len(issued) = 2
    /\ Len(used_file.lines) < 2
    /\ shared_state.collected >= 1

\* ------------------------------------------------------------ index bootstrap
\* The contents the index file may have when a run starts: none, a number the
\* program wrote, a file truncated by an unfinished write, or text edited in.
BootIndexFiles ==
    {AbsentFile, TextFile(Str(0)), TextFile(Str(3)), TextFile(<<>>),
     TextFile(<<"-", "2">>), TextFile(<<"x">>)}

\* Lines the used file may hold: emails of seed aaaa... and of seed bbbb...,
\* a line of seed aaaa... whose suffix is no number, a line that starts with
\* the seed's characters but has no hyphen after them.
BootLines ==
    {make_deterministic_email_from_seed(HexSeed("a"), 0),
     make_deterministic_email_from_seed(HexSeed("a"), 2),
     make_deterministic_email_from_seed(HexSeed("b"), 1),
     Prefix(HexSeed("a"), ShortLen) \o <<"-", "x", "@">> \o Domain,
     Prefix(HexSeed("a"), ShortLen) \o <<"a", "-", "0", "0", "9", "@">> \o Domain}

MaxLogLines == 2

BootLogs ==
    {AbsentLog} \cup
        {[exists |-> TRUE, lines |-> l] :
            l \in UNION {[1..n -> BootLines] : n \in 0..MaxLogLines}}

\* The start of a run on any of these files.
InitBootstrap ==
    /\ argv = NoCommandLine
    /\ extractor = NoExtraction
    /\ args \in {a \in ArgSets :
                    a.count = 1 /\ a.max_attempts = 1 /\ ~a.retry_with_email}
    /\ seed_file \in {AbsentFile, TextFile(HexSeed("a"))}
    /\ index_file \in BootIndexFiles
    /\ used_file \in BootLogs
    /\ seeds_history = <<>>
    /\ prev_max = -1
    /\ run = 1
    /\ faults_left = 0
    /\ StartOfRun

\* generate_coupons_concurrent up to the creation of the generator.
NextBootstrap == SeedHandling \/ StartingIndex \/ CreateGenerator

SpecBootstrap == InitBootstrap /\ [][NextBootstrap]_vars

\* The text of a line after the seed's short prefix and a hyphen, up to "@".
SeedSuffix(line) ==
    SubSeq(BeforeAt(line), ShortLen + 2, Len(BeforeAt(line)))

\* The numeric suffixes of the used file's entries that start with the seed's
\* short prefix and a hyphen.
SeedSuffixes ==
    {DigitsValue(SeedSuffix(used_file.lines[i])) :
        i \in {j \in 1..Len(used_file.lines) :
                 /\ StartsWith(BeforeAt(used_file.lines[j]),
                               Prefix(seed_hex, ShortLen) \o <<"-">>)
                 /\ AllDigits(SeedSuffix(used_file.lines[j]))}}

OnePastMaxSuffix ==
    IF SeedSuffixes = {} THEN 0
    ELSE 1 + CHOOSE m \in SeedSuffixes : \A n \in SeedSuffixes : n <= m

UpperChars ==
    {"A", "B", "C", "D", "E", "F", "G", "H", "I", "J", "K", "L", "M",
     "N", "O", "P", "Q", "R", "S", "T", "U", "V", "W", "X", "Y", "Z"}

LowerChars ==
    {"a", "b", "c", "d", "e", "f", "g", "h", "i", "j", "k", "l", "m",
     "n", "o", "p", "q", "r", "s", "t", "u", "v", "w", "x", "y", "z"}

DigitSet == {DigitChars[d] : d \in 1..10}

\* \b separates a character of this class from one outside it.
WordChars == UpperChars \cup LowerChars \cup DigitSet \cup {"_"}

\* [A-Za-z0-9\-\_]
TokenChars == UpperChars \cup LowerChars \cup DigitSet \cup {"-", "_"}

\* [A-Z0-9]
CodeTailChars == UpperChars \cup DigitSet

\* \s
SpaceChars == {" ", "\t", "\n", "\r"}

\* Python's None, which is no text.
None == <<"None">>

\* bool(v) for a text or None.
Truthy(v) == v # None /\ v # <<>>

\* s[i], and no character outside s.
At(s, i) == IF i \in 1..Len(s) THEN s[i] ELSE ""

\* The length of the longest run of characters of class cs in s from position i.
RunLen(s, i, cs) ==
    CHOOSE n \in 0..Len(s) :
        /\ \A k \in 0..(n - 1) : At(s, i + k) \in cs
        /\ At(s, i + n) \notin cs

\* The least member of a non-empty set of positions.
Leftmost(ps) == CHOOSE i \in ps : \A j \in ps : i <= j

\* CODE_RE_URL = [?&]code=([A-Za-z0-9\-\_]+): the positions where it matches.
UrlCodeAt(u) ==
    {i \in 1..Len(u) :
        /\ At(u, i) \in {"?", "&"}
        /\ SubSeq(u, i + 1, Min(i + 5, Len(u))) = <<"c", "o", "d", "e", "=">>
        /\ RunLen(u, i + 6, TokenChars) >= 1}

parse_code_from_url(u) ==
    IF ~Truthy(u) \/ UrlCodeAt(u) = {} THEN None
    ELSE LET i == Leftmost(UrlCodeAt(u))
         IN  SubSeq(u, i + 6, i + 5 + RunLen(u, i + 6, TokenChars))

\* CODE_RE_BODY = \b([A-Z]{1,2}-[A-Z0-9]{5,8})\b: the end of its match at
\* position i, 0 if it does not match there.
BodyCodeEnd(t, i) ==
    LET a == RunLen(t, i, UpperChars)
        b == RunLen(t, i + a + 1, CodeTailChars)
    IN  IF /\ At(t, i - 1) \notin WordChars
           /\ a \in 1..2
           /\ At(t, i + a) = "-"
           /\ b \in 5..8
           /\ At(t, i + a + 1 + b) \notin WordChars
        THEN i + a + b
        ELSE 0

\* The positions where CODE_RE_BODY matches.
BodyCodeAt(t) == {i \in 1..Len(t) : BodyCodeEnd(t, i) > 0}

\* code[:=]\s*['"]?([A-Za-z0-9\-\_]+): where its group starts for a match at
\* position i, 0 if it does not match there.
AssignedCodeStart(t, i) ==
    LET j == i + 5 + RunLen(t, i + 5, SpaceChars)
        k == IF At(t, j) \in {"'", "\""} THEN j + 1 ELSE j
    IN  IF /\ SubSeq(t, i, Min(i + 3, Len(t))) = <<"c", "o", "d", "e">>
           /\ At(t, i + 4) \in {":", "="}
           /\ RunLen(t, k, TokenChars) >= 1
        THEN k
        ELSE 0

AssignedCodeAt(t) == {i \in 1..Len(t) : AssignedCodeStart(t, i) > 0}

parse_code_from_text(t) ==
    IF ~Truthy(t) THEN None
    ELSE IF BodyCodeAt(t) # {}
         THEN SubSeq(t, Leftmost(BodyCodeAt(t)),
                     BodyCodeEnd(t, Leftmost(BodyCodeAt(t))))
         ELSE IF AssignedCodeAt(t) # {}
              THEN LET k == AssignedCodeStart(t, Leftmost(AssignedCodeAt(t)))
                   IN  SubSeq(t, k, k + RunLen(t, k, TokenChars) - 1)
              ELSE None

THANKS_BASE ==
    <<"h", "t", "t", "p", "s", ":", "/", "/", "v", "e", "r", "y", "m", "o",
      "b", "i", "l", "e", ".", "i", "t", "/", "p", "r", "o", "m", "o", "-",
      "m", "e", "t", "a", "1", "/", "g", "r", "a", "z", "i", "e">>

PAGE_BASE ==
    <<"h", "t", "t", "p", "s", ":", "/", "/", "v", "e", "r", "y", "m", "o",
      "b", "i", "l", "e", ".", "i", "t", "/", "p", "r", "o", "m", "o", "-",
      "m", "e", "t", "a", "1">>

\* The keys _extract_from_webhook_response looks up, as they are written.
KeyText(k) ==
    CASE k = "Coupon" -> <<"C", "o", "u", "p", "o", "n">>
      [] k = "coupon" -> <<"c", "o", "u", "p", "o", "n">>
      [] k = "code" -> <<"c", "o", "d", "e">>
      [] k = "CouponCode" -> <<"C", "o", "u", "p", "o", "n", "C", "o", "d", "e">>
      [] k = "Page" -> <<"P", "a", "g", "e">>
      [] k = "page" -> <<"p", "a", "g", "e">>
      [] k = "MNP" -> <<"M", "N", "P">>
      [] k = "mnp" -> <<"m", "n", "p">>
      [] k = "op" -> <<"o", "p">>

KeyOrder ==
    <<"Coupon", "coupon", "code", "CouponCode", "Page", "page", "MNP", "mnp", "op">>

\* The body of a response whose JSON is the object jd (a function from keys
\* to texts), as the endpoint writes it: {"k":"v","k":"v"}.
RECURSIVE JsonMembers(_, _)
JsonMembers(jd, keys) ==
    IF keys = <<>> THEN <<>>
    ELSE IF keys[1] \notin DOMAIN jd THEN JsonMembers(jd, Tail(keys))
         ELSE LET rest == JsonMembers(jd, Tail(keys))
              IN  <<"\"">> \o KeyText(keys[1]) \o <<"\"", ":", "\"">> \o jd[keys[1]]
                    \o <<"\"">> \o (IF rest = <<>> THEN <<>> ELSE <<",">> \o rest)

JsonText(jd) == <<"{">> \o JsonMembers(jd, KeyOrder) \o <<"}">>

\* jd.get(k)
Get(jd, k) == IF k \in DOMAIN jd THEN jd[k] ELSE None

\* jd.get(k1) or jd.get(k2) or ...: the first truthy value, else the last.
RECURSIVE GetFirst(_, _)
GetFirst(jd, keys) ==
    IF Len(keys) = 1 \/ Truthy(Get(jd, keys[1])) THEN Get(jd, keys[1])
    ELSE GetFirst(jd, Tail(keys))

\* requests.utils.requote_uri on the characters used here: a space is
\* percent-encoded, letters, digits and "-" are kept.
RECURSIVE requote_uri(_)
requote_uri(u) ==
    IF u = <<>> THEN <<>>
    ELSE (IF u[1] = " " THEN <<"%", "2", "0">> ELSE <<u[1]>>) \o requote_uri(Tail(u))

\* A response: its JSON object, or the fact that its body is no JSON object,
\* and its text.
JsonResponse(jd) == [is_dict |-> TRUE, jd |-> jd, text |-> JsonText(jd)]
TextResponse(t) == [is_dict |-> FALSE, jd |-> <<>>, text |-> t]

\* jd.get("Coupon") or jd.get("coupon") or jd.get("code") or jd.get("CouponCode")
coupon_of(jd) == GetFirst(jd, <<"Coupon", "coupon", "code", "CouponCode">>)

\* jd.get("Page") or jd.get("page")
page_of(jd) == GetFirst(jd, <<"Page", "page">>)

\* jd.get("MNP") or jd.get("mnp") or jd.get("op")
mnp_of(jd) == GetFirst(jd, <<"MNP", "mnp", "op">>)

structured_resultMut(r) == <<None, None>>

\* The try block of _extract_from_webhook_response: (coupon, final_url) if
\* the body is an object with a coupon and a page, else nothing.
structured_result(r) ==
    IF ~r.is_dict THEN <<None, None>>
    ELSE LET coupon == coupon_of(r.jd)
             page == page_of(r.jd)
             mnp == mnp_of(r.jd)
             mnp_enc == IF Truthy(mnp) THEN requote_uri(mnp) ELSE <<>>
             final_url == PAGE_BASE \o <<"/">> \o page
                            \o <<"?", "c", "o", "d", "e", "=">> \o coupon
         IN  IF Truthy(coupon) /\ Truthy(page)
             THEN <<coupon,
                    IF Truthy(mnp_enc)
                    THEN final_url \o <<"&", "o", "p", "=">> \o mnp_enc
                    ELSE final_url>>
             ELSE <<None, None>>

\* The outcome of session.get(THANKS_BASE): it raised, or the final URL and
\* the text of the page.
GetRaised == [ok |-> FALSE, url |-> <<>>, text |-> <<>>]

\* The part of _extract_from_webhook_response after the GET returned g.
code_from_get(g) ==
    LET from_url == parse_code_from_url(g.url)
        code2 == IF Truthy(from_url) THEN from_url ELSE parse_code_from_text(g.text)
    IN  IF g.ok /\ Truthy(code2) THEN <<code2, g.url>> ELSE <<None, None>>

\* The coupon, page and operator members a response object may have.
CouponMembers ==
    {<<>>,
     "Coupon" :> <<"X", "Y", "-", "9", "9", "9", "9", "9">>,
     "Coupon" :> <<"A", "B", "-", "1", "2", "3", "4", "5">>,
     "Coupon" :> <<"a", "b", "c", "1", "2">>,
     "Coupon" :> <<>>,
     "code" :> <<"X", "Y", "-", "9", "9", "9", "9", "9">>,
     ("Coupon" :> <<>>) @@ ("CouponCode" :> <<"q", "7">>)}

PageMembers ==
    {<<>>,
     "Page" :> <<"t", "h", "a", "n", "k", "s">>,
     "page" :> <<"g", "r", "a", "z", "i", "e">>,
     "Page" :> <<>>}

OperatorMembers ==
    {<<>>,
     "MNP" :> <<"W", " ", "3">>,
     "op" :> <<"I", "l", "i", "a", "d">>}

\* The responses the endpoint may give: objects, and bodies that are none.
Responses ==
    {JsonResponse(c @@ p @@ o) :
        c \in CouponMembers, p \in PageMembers, o \in OperatorMembers}
    \cup {TextResponse(<<>>),
          TextResponse(<<"<", "p", ">", "Z", "Q", "-", "7", "7", "8", "8", "A", "<", "/", "p", ">">>),
          TextResponse(<<"c", "o", "d", "e", ":", " ", "'", "k", "9", "_", "x", "'">>),
          TextResponse(<<"X", "A", "B", "-", "1", "2", "3", "4", "5", " ", "A", "-", "1", "2", "3", "4">>)}

\* What session.get(THANKS_BASE) may give.
GetOutcomes ==
    {GetRaised,
     [ok |-> TRUE, url |-> THANKS_BASE, text |-> <<>>],
     [ok |-> TRUE, url |-> THANKS_BASE \o <<"?", "x", "=", "1", "&", "c", "o", "d", "e", "=", "Z", "Z", "-", "0", "0", "0", "0", "1">>, text |-> <<>>],
     [ok |-> TRUE, url |-> THANKS_BASE, text |-> <<"c", "o", "d", "e", "=", "A", "B", "-", "1", "2", "3", "4", "5">>]}

\* _extract_from_webhook_response is about to be called on a response.
InitExtract ==
    /\ argv = NoCommandLine
    /\ \E r \in Responses :
          extractor = [pc |-> "json", r |-> r, get_issued |-> FALSE,
                       g |-> GetRaised, result |-> <<None, None>>]
    /\ args \in {a \in ArgSets :
                    a.count = 1 /\ a.max_attempts = 1 /\ a.no_email
                    /\ ~a.retry_with_email /\ ~a.reuse_seed}
    /\ seed_file = AbsentFile
    /\ index_file = AbsentFile
    /\ used_file = AbsentLog
    /\ seeds_history = <<>>
    /\ prev_max = -1
    /\ run = 1
    /\ faults_left = 0
    /\ StartOfRun

\* _extract_from_webhook_response: the try block on r.json().
ExtractStructured ==
    /\ extractor.pc = "json"
    /\ extractor' =
          IF structured_result(extractor.r)[1] # None
          THEN [extractor EXCEPT !.pc = "returned",
                                 !.result = structured_result(extractor.r)]
          ELSE [extractor EXCEPT !.pc = "text"]
    /\ UNCHANGED <<argv, args, files, generator, shared_state, state_lock, pc,
                   locals, coordinator, history>>

\* _extract_from_webhook_response: parse_code_from_text(r.text or "").
ExtractFromText ==
    /\ extractor.pc = "text"
    /\ extractor' =
          IF Truthy(parse_code_from_text(extractor.r.text))
          THEN [extractor EXCEPT !.pc = "returned",
                                 !.result = <<parse_code_from_text(extractor.r.text), None>>]
          ELSE [extractor EXCEPT !.pc = "get"]
    /\ UNCHANGED <<argv, args, files, generator, shared_state, state_lock, pc,
                   locals, coordinator, history>>

\* _extract_from_webhook_response: session.get(THANKS_BASE) and what follows.
FollowUpGet ==
    /\ extractor.pc = "get"
    /\ \E g \in GetOutcomes :
          extractor' = [extractor EXCEPT !.pc = "returned",
                                         !.get_issued = TRUE,
                                         !.g = g,
                                         !.result = code_from_get(g)]
    /\ UNCHANGED <<argv, args, files, generator, shared_state, state_lock, pc,
                   locals, coordinator, history>>

NextExtract == ExtractStructured \/ ExtractFromText \/ FollowUpGet

SpecExtract == InitExtract /\ [][NextExtract]_vars

\* The operator parameter a synthesized URL carries for response r.
OperatorSuffix(r) ==
    IF Truthy(mnp_of(r.jd))
    THEN <<"&", "o", "p", "=">> \o requote_uri(mnp_of(r.jd))
    ELSE <<>>

\* Response r is an object with a coupon and neither "Page" nor "page".
CouponAlone(r) ==
    /\ r.is_dict
    /\ Truthy(coupon_of(r.jd))
    /\ DOMAIN r.jd \cap {"Page", "page"} = {}

\* C14: for a response object with a coupon and no page the extractor returns
\* the coupon and the URL THANKS_BASE?code=<coupon>, with &op=<operator> if
\* the object names an operator.
C14_CouponAloneGetsThanksUrl ==
    (extractor.pc = "returned" /\ CouponAlone(extractor.r))
        => extractor.result =
              <<coupon_of(extractor.r.jd),
                THANKS_BASE \o <<"?", "c", "o", "d", "e", "=">>
                    \o coupon_of(extractor.r.jd) \o OperatorSuffix(extractor.r)>>

\* Response r is an object with a non-empty coupon and a non-empty page.
CouponAndPage(r) ==
    /\ r.is_dict
    /\ Truthy(coupon_of(r.jd))
    /\ Truthy(page_of(r.jd))

\* C15: for a response object with a coupon and a page the extractor returns
\* the coupon and the URL PAGE_BASE/<page>?code=<coupon>, with &op=<operator>
\* if the object names one, whatever the patterns find in the text, and does
\* not issue the GET; the GET is issued only if the object gave no result and
\* the patterns found no code in the text.
C15_StructuredFirst ==
    /\ (extractor.pc = "returned" /\ CouponAndPage(extractor.r)) =>
          /\ extractor.result =
                <<coupon_of(extractor.r.jd),
                  PAGE_BASE \o <<"/">> \o page_of(extractor.r.jd)
                      \o <<"?", "c", "o", "d", "e", "=">>
                      \o coupon_of(extractor.r.jd) \o OperatorSuffix(extractor.r)>>
          /\ ~extractor.get_issued
    /\ (extractor.pc = "get" \/ (extractor.pc = "returned" /\ extractor.get_issued)) =>
          /\ ~CouponAndPage(extractor.r)
          /\ parse_code_from_text(extractor.r.text) = None

\* C15 witness: {"Coupon":"abc12","Page":"thanks","MNP":"W 3"}, whose text the
\* patterns find no code in, gave abc12 and a URL ending in
\* /thanks?code=abc12&op=W%203.
C15_Witness ==
    /\ extractor.pc = "returned"
    /\ CouponAndPage(extractor.r)
    /\ mnp_of(extractor.r.jd) = <<"W", " ", "3">>
    /\ parse_code_from_text(extractor.r.text) = None
    /\ extractor.result[1] = <<"a", "b", "c", "1", "2">>
    /\ SubSeq(extractor.result[2], Len(PAGE_BASE) + 1, Len(extractor.result[2])) =
          <<"/", "t", "h", "a", "n", "k", "s", "?", "c", "o", "d", "e", "=",
            "a", "b", "c", "1", "2", "&", "o", "p", "=", "W", "%", "2", "0", "3">>

\* C16: without --retry-with-email the coordinator returns the first
\* min(count, len(results)) entries of shared_state["results"] as they are when
\* it takes them, never more than count, also when more than count codes were
\* recorded; results only grows at its end, so its order is the order in
\* which the records were made.
C16_ReturnsFirstTarget ==
    /\ [][(cpc = "join" /\ cpc' # "join" /\ ~args.retry_with_email) =>
            /\ cpc' = "returned"
            /\ results_rows' =
                  SubSeq(shared_state.results, 1,
                         Min(args.count, Len(shared_state.results)))]_vars
    /\ [](cpc = "returned" /\ seed_hex # NoSeed /\ ~args.retry_with_email =>
            /\ Len(results_rows) <= args.count
            /\ Len(results_rows) <= Len(shared_state.results)
            /\ \A i \in 1..Len(results_rows) :
                  results_rows[i] = shared_state.results[i])
    /\ [][shared_state'.results # shared_state.results =>
            /\ Len(shared_state'.results) = Len(shared_state.results) + 1
            /\ SubSeq(shared_state'.results, 1, Len(shared_state.results))
                  = shared_state.results]_vars

\* C16 witness: two codes were recorded for a count of 1 and the coordinator
\* returned the first only.
C16_Witness ==
    /\ cpc = "returned"
    /\ ~args.retry_with_email
    /\ args.count = 1
    /\ Len(shared_state.results) = 2
    /\ results_rows = <<shared_state.results[1]>>

\* --------------------------------------------------------------------- main
MaxRetries == 2
MaxConcurrency == 2
MaxMultiplier == 2

\* The command lines main may be given.
CommandLines ==
    [real : BOOLEAN,
     count : 0..MaxCount,
     max_retries : 1..MaxRetries,
     concurrency : 1..MaxConcurrency,
     concurrency_max_attempts_multiplier : 1..MaxMultiplier,
     max_attempts : 0..MaxAttempts,
     no_email : BOOLEAN,
     retry_with_email : BOOLEAN,
     reuse_seed : BOOLEAN]

\* No call of generate_coupons_concurrent has been made.
NoArgs ==
    [count |-> 0, max_attempts |-> 1, no_email |-> FALSE,
     retry_with_email |-> FALSE, reuse_seed |-> FALSE]

\* main: "derive max attempts if not set".
derive_max_attempts(a) ==
    IF a.max_attempts <= 0
    THEN Max(1, a.count * a.max_retries * a.concurrency
                   * a.concurrency_max_attempts_multiplier)
    ELSE a.max_attempts

\* main has parsed its command line.
InitMain ==
    /\ argv \in CommandLines
    /\ extractor = NoExtraction
    /\ args = NoArgs
    /\ seed_file = AbsentFile
    /\ index_file = AbsentFile
    /\ used_file = AbsentLog
    /\ seeds_history = <<>>
    /\ prev_max = -1
    /\ run = 1
    /\ faults_left = 0
    /\ seed_hex = NoSeed
    /\ idx = 0
    /\ gen_index = 0
    /\ gen_lock = Free
    /\ shared_state = NewSharedState
    /\ state_lock = Free
    /\ pc = [w \in Workers |-> "unstarted"]
    /\ cur_idx = [w \in Workers |-> 0]
    /\ cur_email = [w \in Workers |-> <<>>]
    /\ code = [w \in Workers |-> NoCode]
    /\ cpc = "main"
    /\ results_rows = <<>>
    /\ interrupted_at = -1
    /\ issued = <<>>
    /\ emails = <<>>

\* main without --real: do_dry_run and return.
DryRun ==
    /\ cpc = "main"
    /\ ~argv.real
    /\ cpc' = "returned"
    /\ UNCHANGED <<argv, extractor, args, files, generator, shared_state,
                   state_lock, pc, locals, results_rows, interrupted_at,
                   seed_hex, idx, history>>

\* main with --real --yes: max_attempts is derived and
\* generate_coupons_concurrent is called.
CallGenerate ==
    /\ cpc = "main"
    /\ argv.real
    /\ args' = [count |-> argv.count,
                max_attempts |-> derive_max_attempts(argv),
                no_email |-> argv.no_email,
                retry_with_email |-> argv.retry_with_email,
                reuse_seed |-> argv.reuse_seed]
    /\ cpc' = "seed"
    /\ UNCHANGED <<argv, extractor, files, generator, shared_state, state_lock,
                   pc, locals, results_rows, interrupted_at, seed_hex, idx,
                   history>>

\* main up to its call of generate_coupons_concurrent.
NextMain == DryRun \/ CallGenerate

SpecMain == InitMain /\ [][NextMain]_vars

\* C17: without --max-attempts (0) the cap generate_coupons_concurrent is
\* given is count * max_retries.  It is stated here for a count of at least
\* 1, where that product is a usable cap, and for the default multiplier 1.
C17_DefaultCapIsCountTimesRetries ==
    [][(/\ cpc = "main"
        /\ cpc' = "seed"
        /\ argv.max_attempts = 0
        /\ argv.count >= 1
        /\ argv.concurrency_max_attempts_multiplier = 1)
          => args'.max_attempts = argv.count * argv.max_retries]_vars

\* The locks thread t holds (t a worker or Coord).
HeldBy(t) ==
    (IF state_lock = t THEN {"shared_state"} ELSE {})
        \cup (IF gen_lock = t THEN {"gen"} ELSE {})

\* Worker w is at a `with` statement whose lock another thread holds.
WaitsForLock(w) ==
    \/ pc[w] \in {"reserve", "record"} /\ state_lock # Free
    \/ pc[w] = "email" /\ args.no_email /\ gen_lock # Free

\* C18: no thread ever holds shared_state["lock"] and gen.lock together; a
\* thread that holds a lock is inside the block the lock guards, where it
\* waits for nothing and its next step releases the lock or continues towards
\* releasing it; and under fair scheduling every thread at a `with` statement
\* gets past it.
C18_NoNestedLockNoDeadlock ==
    /\ [](\A t \in Workers \cup {Coord} : Cardinality(HeldBy(t)) <= 1)
    /\ [](/\ \A w \in Workers :
                /\ state_lock = w <=> pc[w] \in {"reserving", "recording"}
                /\ gen_lock = w <=> pc[w] \in {"gen_write", "gen_append"}
          /\ state_lock = Coord <=> cpc \in {"monitoring", "stopping"}
          /\ gen_lock # Coord)
    /\ \A w \in Workers :
          /\ (pc[w] = "reserve") ~> (pc[w] # "reserve")
          /\ (pc[w] = "record") ~> (pc[w] # "record")
          /\ (pc[w] = "email") ~> (pc[w] # "email")
    /\ (cpc = "monitor") ~> (cpc # "monitor")
    /\ (cpc = "except") ~> (cpc # "except")

\* C18 witness: one worker is inside next_email_and_advance, the other inside
\* the reservation block, a code is already recorded, and the coordinator is
\* at its `with shared_state["lock"]`.
C18_Witness ==
    /\ gen_lock = 1
    /\ state_lock = 2
    /\ cpc = "monitor"
    /\ shared_state.collected = 1
    /\ WaitsForLock(2) = FALSE
    /\ Cardinality(HeldBy(1)) = 1

\* Worker w's attempt ends in this step without a new code: the request
\* raised or the response held no code, or the code was recorded before.
EndsUnproductive(w) ==
    \/ pc[w] = "request" /\ pc'[w] \notin {"request", "record"}
    \/ pc[w] = "recording" /\ pc'[w] # "recording"
          /\ code[w] \in shared_state.seen_codes

\* C19: an attempt that ends without a new code is spent: attempts keeps its
\* increment, collected, seen_codes, results and done stay as they are, and
\* the worker goes back to the reservation block instead of returning.
C19_UnproductiveAttemptIsSpent ==
    [][\A w \in Workers :
          EndsUnproductive(w) =>
              /\ shared_state' = shared_state
              /\ shared_state.attempts >= 1
              /\ pc'[w] = "reserve"]_vars

\* C19 witness: two attempts were reserved, one recorded a code, the other
\* ended without one, and both workers are back at the reservation block
\* with done not set.
C19_Witness ==
    /\ shared_state.attempts = 2
    /\ shared_state.collected = 1
    /\ ~shared_state.done
    /\ \A w \in Workers : pc[w] = "reserve"

\* The workers granted an attempt that have not yet been returned an email.
AwaitingEmail == {w \in Workers : pc[w] \in {"email", "gen_write", "gen_append"}}

\* The emails next_email_and_advance has returned in the run.
IssuedEmails == {emails[i] : i \in 1..Len(emails)}

\* C20: with --no-email every attempt calls next_email_and_advance once and
\* every email issued belongs to one attempt: attempts counts the emails
\* issued plus the workers between their reservation and the return of the
\* call; a granted worker's next step of its own enters the call; a worker
\* starts a request only on returning from the call, with the email just
\* issued, which no earlier request carried; workers at their requests hold
\* different emails.
C20_OneIdentityPerAttempt ==
    /\ [](args.no_email /\ seed_hex # NoSeed =>
            /\ shared_state.attempts = Len(issued) + Cardinality(AwaitingEmail)
            /\ Len(issued) <= shared_state.attempts
            /\ \A v, w \in Workers :
                  (v # w /\ pc[v] \in {"request", "record", "recording"}
                         /\ pc[w] \in {"request", "record", "recording"})
                      => cur_email[v] # cur_email[w])
    /\ [][args.no_email =>
            \A w \in Workers :
                /\ (pc[w] = "email" /\ pc'[w] # "email") =>
                      pc'[w] = "gen_write" /\ gen_lock' = w
                /\ (pc[w] # "request" /\ pc'[w] = "request") =>
                      /\ pc[w] = "gen_append"
                      /\ cur_email'[w] \notin IssuedEmails
                      /\ emails' = Append(emails, cur_email'[w])
                      /\ issued' = Append(issued, cur_idx[w])
                /\ (pc[w] = "request" /\ pc'[w] # "request") =>
                      cur_email[w] \in IssuedEmails]_vars

\* C20 witness: with --no-email two attempts were granted and two emails
\* issued; the first email's request has recorded a code, the second worker
\* is at its request with the other email.
C20_Witness ==
    /\ args.no_email
    /\ shared_state.attempts = 2
    /\ Len(emails) = 2
    /\ Len(shared_state.results) = 1
    /\ shared_state.results[1][1] = emails[1]
    /\ \E w \in Workers : pc[w] = "request" /\ cur_email[w] = emails[2]

\* C21 as stated: once shared_state exists, collected never exceeds
\* count + K - 1 for the K workers, and whenever collected >= count, done is
\* set.
C21_OvershootBoundedAndDone ==
    (seed_hex # NoSeed /\ cpc \notin {"seed", "index", "gen"}) =>
        /\ shared_state.collected <= args.count + NumWorkers - 1
        /\ shared_state.collected >= args.count => shared_state.done

\* C21 amended: collected never exceeds count + K - 1; for a count of at
\* least 1, collected >= count implies done, while for a count of 0 done is
\* set only by the first reservation check of a worker; once collected has
\* reached count no reservation is granted, and collected grows only by the
\* records of workers already past their reservation, of which there are at
\* most count + K - 1 - collected.
C21_OvershootBounded ==
    /\ [](/\ shared_state.collected <= args.count + NumWorkers - 1
          /\ (args.count >= 1 /\ shared_state.collected >= args.count)
                => shared_state.done
          /\ (\E w \in Workers : pc[w] = "stopped") => shared_state.done
          /\ shared_state.collected >= args.count =>
                shared_state.collected + Cardinality(InFlight)
                    <= args.count + NumWorkers - 1)
    /\ [][shared_state.collected >= args.count =>
            /\ \A w \in Workers : ~Granted(w)
            /\ shared_state'.collected # shared_state.collected =>
                  \E w \in Workers :
                      /\ pc[w] = "recording"
                      /\ pc'[w] = "stopped"
                      /\ shared_state.done
                      /\ shared_state'.collected = shared_state.collected + 1]_vars

\* C21 witness: for a count of 1, the second worker, already at its request
\* when the first recorded, has recorded too: collected = count + K - 1.
C21_Witness ==
    /\ args.count = 1
    /\ shared_state.collected = args.count + NumWorkers - 1
    /\ shared_state.done
    /\ interrupted_at = -1

\* The coordinator's fallback iteration ends in this step without a new row.
FallbackGaveNothing ==
    cpc = "fallback" /\ cpc' # "fallback" /\ results_rows' = results_rows

\* C22: with --retry-with-email and fewer than count results the fallback
\* loop ends: an iteration whose request raises or yields no new code leaves
\* the loop, every other iteration adds one row with a code not yet in the
\* list, and under fair scheduling the coordinator returns.  Whenever the
\* loop is entered, running or left, the list holds no code twice and at
\* most count entries.
C22_FallbackTerminates ==
    /\ (cpc = "fallback") ~> (cpc = "returned")
    /\ [](cpc = "fallback" => args.retry_with_email /\ Len(results_rows) < args.count)
    /\ []((cpc \in {"fallback", "returned"} /\ args.retry_with_email) =>
            /\ DistinctCodes(results_rows)
            /\ Len(results_rows) <= args.count)
    /\ [][cpc = "fallback" =>
            /\ cpc' \in {"fallback", "returned"}
            /\ FallbackGaveNothing => cpc' = "returned"
            /\ results_rows' # results_rows =>
                  /\ Len(results_rows') = Len(results_rows) + 1
                  /\ SubSeq(results_rows', 1, Len(results_rows)) = results_rows
                  /\ results_rows'[Len(results_rows')][2] \notin RowCodes(results_rows)
                  /\ cpc' = "fallback" <=> Len(results_rows') < args.count]_vars

\* C22 witness: with --no-email and --retry-with-email the workers collected
\* one of two codes, the fallback loop added the second with the configured
\* email, and the coordinator returned both.
C22_Witness ==
    /\ cpc = "returned"
    /\ args.retry_with_email
    /\ args.no_email
    /\ args.count = 2
    /\ Len(results_rows) = 2
    /\ results_rows[1][1] # FallbackEmail
    /\ results_rows[2][1] = FallbackEmail

====
